---- MODULE Spec2Model ----
(***************************************************************************)
(* Model of the dependency traversal of conf.py:                           *)
(* build_dependency_graph_bfs and its nested bfs_recursive, driven by a    *)
(* static dependency table (load_demo_dependencies or a table file) whose  *)
(* per-node fetch may raise.  The Python recursion is an explicit stack of *)
(* frames; one action per step of bfs_recursive between recursive calls.   *)
(***************************************************************************)
EXTENDS Integers, Sequences, FiniteSets, TLC

VARIABLES
    table,            \* dependencies_data: package name -> list of names
    fails,            \* package names whose dependency fetch raises
    root_version,     \* root_version argument
    max_depth,        \* max_depth argument: an int or float('inf')
    graph,            \* graph = defaultdict(list): key -> list of keys
    visited,          \* visited = {}: key -> depth, the active path
    cycles_detected,  \* cycles_detected = []
    depth_info,       \* depth_info = {}: key -> depth
    stack,            \* call stack of bfs_recursive frames, top is last
    phase,            \* "start", "running", "returned" or "raised"
    fetch_log         \* keys whose dependency fetch was issued, in order

vars == <<table, fails, root_version, max_depth, graph, visited,
          cycles_detected, depth_info, stack, phase, fetch_log>>

-----------------------------------------------------------------------------
(* Bounds of the model *)

\* largest number of dependency edges of a generated table
MaxEdges == 4
\* largest finite max_depth tried (besides -1 and float('inf'))
MaxDepthBound == 2
\* largest number of packages whose fetch raises
MaxFails == 1

-----------------------------------------------------------------------------
(* Inputs *)

Names == {"A", "B", "C", "D", "E", "F", "G"}

\* names the generated tables range over; other names have no dependencies
GenNames == {"A", "B", "C"}

\* get_user_input: the test repository starts from package A
root_package == "A"

\* version_req given to every dependency of a static table
DepVersion == "1.0"

Versions == {"1.0", "2.0"}

\* float('inf'), the value of an empty "max depth" input
Unbounded == [inf |-> TRUE, n |-> 0]

Finite(k) == [inf |-> FALSE, n |-> k]

\* current_depth > max_depth, with int > float('inf') always False
DepthExceeds(current_depth, md) == (~md.inf) /\ current_depth > md.n

\* load_demo_dependencies
DemoTable ==
    [p \in Names |->
        CASE p = "A" -> <<"B", "C">>
          [] p = "B" -> <<"D">>
          [] p = "C" -> <<"A", "E">>
          [] p = "D" -> <<"F">>
          [] p = "E" -> <<"G">>
          [] p = "F" -> <<"B">>
          [] OTHER   -> <<>>]

\* a table file as parsed by load_test_dependencies_from_file:
\* A: B, C / B: D / C: D, E / D: F / E: A / F:
SharedTable ==
    [p \in Names |->
        CASE p = "A" -> <<"B", "C">>
          [] p = "B" -> <<"D">>
          [] p = "C" -> <<"D", "E">>
          [] p = "D" -> <<"F">>
          [] p = "E" -> <<"A">>
          [] OTHER   -> <<>>]

\* dependency lists of the generated tables: no name twice
DepLists ==
    {s \in UNION {[1..k -> GenNames] : k \in 0..Cardinality(GenNames)} :
        \A i, j \in 1..Len(s) : i # j => s[i] # s[j]}

\* every table over GenNames with at most MaxEdges dependency edges
GenTables ==
    {[p \in Names |-> IF p \in GenNames THEN t[p] ELSE <<>>] :
        t \in {u \in [GenNames -> DepLists] :
                  Len(u["A"]) + Len(u["B"]) + Len(u["C"]) <= MaxEdges}}

Tables == GenTables \cup {DemoTable, SharedTable}

FailSets == {S \in SUBSET GenNames : Cardinality(S) <= MaxFails}

Depths == {Finite(k) : k \in -1..MaxDepthBound} \cup {Unbounded}

-----------------------------------------------------------------------------
(* Helpers of bfs_recursive *)

\* package_key = f"{package}@{version}"
Key(package, version) == <<package, version>>

RootKey == Key(root_package, root_version)

\* dependencies_data.get(package, []) turned into descriptors
Dependencies(package) ==
    IF package \in DOMAIN table
    THEN [i \in 1..Len(table[package]) |->
            [name |-> table[package][i], version_req |-> DepVersion]]
    ELSE <<>>

\* the fetch of the try block raises for this package
FetchRaises(package) == package \in fails

\* variant: the membership test written as "if visited.get(package_key):",
\* which misses a key stored with depth 0
OnPathTruthy(key, vis) == key \in DOMAIN vis /\ vis[key] # 0

\* package_key in visited
OnPath(key, vis) == key \in DOMAIN vis

\* the literal " -> ... -> " between the two keys of a cycle string
Ellipsis == <<"...", "">>

\* the string appended to cycles_detected: f"{key} -> ... -> {key}"
CycleRecord(key) == <<key, Ellipsis, key>>

\* visited[package_key] = current_depth
SetDepth(m, key, d) == [k \in DOMAIN m \cup {key} |-> IF k = key THEN d ELSE m[k]]

\* variant: visited is never popped (a traversal-wide visited set)
NeverPop(vis, key, raised) == vis

\* variant: the pop placed inside the try block, skipped when the fetch raises
PopOnlyAfterLoop(vis, key, raised) ==
    IF raised THEN vis ELSE [k \in DOMAIN vis \ {key} |-> vis[k]]

\* visited.pop(package_key), run after the try/except whether or not it raised
PopVisited(vis, key, raised) == [k \in DOMAIN vis \ {key} |-> vis[k]]

\* graph[package_key].append(dep_key) on a defaultdict(list)
AppendEdge(g, key, dep_key) ==
    IF key \in DOMAIN g
    THEN [g EXCEPT ![key] = Append(@, dep_key)]
    ELSE [k \in DOMAIN g \cup {key} |-> IF k = key THEN <<dep_key>> ELSE g[k]]

\* a call of bfs_recursive at its first line; entry_visited remembers the
\* visited map the caller had when it made the call
Frame(package, version, current_depth) ==
    [package |-> package, version |-> version, current_depth |-> current_depth,
     pc |-> "entry", dependencies |-> <<>>, i |-> 1, entry_visited |-> visited]

Top == stack[Len(stack)]

TopKey == Key(Top.package, Top.version)

Pop(s) == SubSeq(s, 1, Len(s) - 1)

SetTop(s, f) == [s EXCEPT ![Len(s)] = f]

-----------------------------------------------------------------------------
(* Actions *)

\* state after lines 108-111 of build_dependency_graph_bfs
Init ==
    /\ table \in Tables
    /\ fails \in FailSets
    /\ root_version \in Versions
    /\ max_depth \in Depths
    /\ graph = <<>>
    /\ visited = <<>>
    /\ cycles_detected = <<>>
    /\ depth_info = <<>>
    /\ stack = <<>>
    /\ phase = "start"
    /\ fetch_log = <<>>

\* bfs_recursive(root_package, root_version, 0)
CallRoot ==
    /\ phase = "start"
    /\ stack' = <<Frame(root_package, root_version, 0)>>
    /\ phase' = "running"
    /\ UNCHANGED <<table, fails, root_version, max_depth, graph, visited,
                   cycles_detected, depth_info, fetch_log>>

\* if current_depth > max_depth: return
PruneDepth ==
    /\ phase = "running" /\ stack # <<>>
    /\ Top.pc = "entry"
    /\ DepthExceeds(Top.current_depth, max_depth)
    /\ stack' = Pop(stack)
    /\ UNCHANGED <<table, fails, root_version, max_depth, graph, visited,
                   cycles_detected, depth_info, phase, fetch_log>>

\* if package_key in visited: cycles_detected.append(...); return
RecordCycle ==
    /\ phase = "running" /\ stack # <<>>
    /\ Top.pc = "entry"
    /\ ~DepthExceeds(Top.current_depth, max_depth)
    /\ OnPath(TopKey, visited)
    /\ cycles_detected' = Append(cycles_detected, CycleRecord(TopKey))
    /\ stack' = Pop(stack)
    /\ UNCHANGED <<table, fails, root_version, max_depth, graph, visited,
                   depth_info, phase, fetch_log>>

\* visited[key] = depth_info[key] = current_depth; the fetch succeeds
ExpandOk ==
    /\ phase = "running" /\ stack # <<>>
    /\ Top.pc = "entry"
    /\ ~DepthExceeds(Top.current_depth, max_depth)
    /\ ~OnPath(TopKey, visited)
    /\ ~FetchRaises(Top.package)
    /\ visited' = SetDepth(visited, TopKey, Top.current_depth)
    /\ depth_info' = SetDepth(depth_info, TopKey, Top.current_depth)
    /\ fetch_log' = Append(fetch_log, TopKey)
    /\ stack' = SetTop(stack, [Top EXCEPT !.pc = "loop",
                                          !.dependencies = Dependencies(Top.package),
                                          !.i = 1])
    /\ UNCHANGED <<table, fails, root_version, max_depth, graph,
                   cycles_detected, phase>>

\* visited[key] = depth_info[key] = current_depth; the fetch raises and the
\* except clause prints the error
ExpandFail ==
    /\ phase = "running" /\ stack # <<>>
    /\ Top.pc = "entry"
    /\ ~DepthExceeds(Top.current_depth, max_depth)
    /\ ~OnPath(TopKey, visited)
    /\ FetchRaises(Top.package)
    /\ visited' = SetDepth(visited, TopKey, Top.current_depth)
    /\ depth_info' = SetDepth(depth_info, TopKey, Top.current_depth)
    /\ fetch_log' = Append(fetch_log, TopKey)
    /\ stack' = SetTop(stack, [Top EXCEPT !.pc = "except"])
    /\ UNCHANGED <<table, fails, root_version, max_depth, graph,
                   cycles_detected, phase>>

\* one iteration of "for dep in dependencies" up to the recursive call
LoopStep ==
    /\ phase = "running" /\ stack # <<>>
    /\ Top.pc = "loop"
    /\ Top.i <= Len(Top.dependencies)
    /\ LET dep == Top.dependencies[Top.i]
           dep_key == Key(dep.name, dep.version_req)
       IN /\ graph' = AppendEdge(graph, TopKey, dep_key)
          /\ stack' = Append(SetTop(stack, [Top EXCEPT !.i = @ + 1]),
                             Frame(dep.name, dep.version_req, Top.current_depth + 1))
    /\ UNCHANGED <<table, fails, root_version, max_depth, visited,
                   cycles_detected, depth_info, phase, fetch_log>>

\* visited.pop(package_key) after the loop ended or the except clause ran
Return ==
    /\ phase = "running" /\ stack # <<>>
    /\ \/ Top.pc = "loop" /\ Top.i > Len(Top.dependencies)
       \/ Top.pc = "except"
    /\ visited' = PopVisited(visited, TopKey, Top.pc = "except")
    /\ stack' = Pop(stack)
    /\ UNCHANGED <<table, fails, root_version, max_depth, graph,
                   cycles_detected, depth_info, phase, fetch_log>>

\* return graph, cycles_detected, depth_info
Finish ==
    /\ phase = "running" /\ stack = <<>>
    /\ phase' = "returned"
    /\ UNCHANGED <<table, fails, root_version, max_depth, graph, visited,
                   cycles_detected, depth_info, stack, fetch_log>>

Next ==
    \/ CallRoot
    \/ PruneDepth
    \/ RecordCycle
    \/ ExpandOk
    \/ ExpandFail
    \/ LoopStep
    \/ Return
    \/ Finish

Spec == Init /\ [][Next]_vars

\* the traversal is one synchronous call: a step that can be taken is taken
FairSpec == Spec /\ WF_vars(Next)

Done == phase = "returned"

-----------------------------------------------------------------------------
(* Vocabulary of the properties *)

FrameKey(f) == Key(f.package, f.version)

\* indices of the frames past their entry checks: the calls being expanded
Expanding == {i \in 1..Len(stack) : stack[i].pc # "entry"}

\* keys of the calls being expanded, the root-to-here descent path
ActivePath == {FrameKey(stack[i]) : i \in Expanding}

DepKeys(package) ==
    [i \in 1..Len(Dependencies(package)) |->
        Key(Dependencies(package)[i].name, Dependencies(package)[i].version_req)]

DepsOf(p) == {table[p][i] : i \in 1..Len(table[p])}

RECURSIVE ReachFrom(_)
ReachFrom(S) ==
    LET T == S \cup UNION {DepsOf(p) : p \in S}
    IN IF T = S THEN S ELSE ReachFrom(T)

\* no package reachable from the root depends, directly or not, on itself
Acyclic == \A p \in ReachFrom({root_package}) : p \notin ReachFrom(DepsOf(p))

Fetches(key) == Cardinality({i \in 1..Len(fetch_log) : fetch_log[i] = key})

AtEntry == phase = "running" /\ stack # <<>> /\ Top.pc = "entry"

-----------------------------------------------------------------------------
(* C1 *)

\* C1: a cycle record is appended only for a key that is on the active
\* descent path at that moment; a key expanded earlier in a finished branch
\* and no longer on the path is expanded again with no cycle record; and for
\* a table with no back-edge reachable from the root the cycle list stays
\* empty for every max_depth.
C1_PathScopedCycles ==
    /\ [][/\ cycles_detected' # cycles_detected =>
                /\ AtEntry
                /\ TopKey \in ActivePath
                /\ cycles_detected' = Append(cycles_detected, CycleRecord(TopKey))
          /\ (/\ AtEntry
              /\ TopKey \in DOMAIN depth_info
              /\ TopKey \notin ActivePath
              /\ ~DepthExceeds(Top.current_depth, max_depth)) =>
                /\ cycles_detected' = cycles_detected
                /\ fetch_log' = Append(fetch_log, TopKey)]_vars
    /\ [](cycles_detected = <<>> \/ ~Acyclic)

\* a diamond was traversed: some key was expanded twice, no cycle recorded
C1_Witness ==
    /\ Done
    /\ Acyclic
    /\ cycles_detected = <<>>
    /\ \E key \in DOMAIN depth_info : Fetches(key) >= 2

-----------------------------------------------------------------------------
(* C2 *)

\* C2: a node whose fetch raised is an entry of the returned graph with no
\* edges, and the dependencies of every expanded node, those after a failed
\* one included, are still visited.
C2_FailedNodeHasEmptyEntry ==
    Done =>
        /\ \A key \in DOMAIN depth_info :
              FetchRaises(key[1]) => key \in DOMAIN graph /\ graph[key] = <<>>
        /\ \A key \in DOMAIN depth_info :
              (/\ ~FetchRaises(key[1])
               /\ ~DepthExceeds(depth_info[key] + 1, max_depth)) =>
                  \A i \in 1..Len(DepKeys(key[1])) :
                      DepKeys(key[1])[i] \in DOMAIN depth_info

-----------------------------------------------------------------------------
(* C3 *)

\* C3: the edge targets recorded for a key of the returned graph are the
\* dependency list the source returned for that key, in the same order.
C3_EdgesAreDependencyList ==
    Done => \A key \in DOMAIN graph : graph[key] = DepKeys(key[1])

-----------------------------------------------------------------------------
(* C4 *)

\* C4: with max_depth = 0 the returned graph has exactly one entry, the
\* root, holding its immediate dependencies; they are not fetched and get
\* no graph entry and no depth entry.
C4_DepthZeroOnlyRoot ==
    (Done /\ max_depth = Finite(0)) =>
        /\ DOMAIN graph = {RootKey}
        /\ graph[RootKey] = DepKeys(root_package)
        /\ fetch_log = <<RootKey>>
        /\ DOMAIN depth_info = {RootKey}

-----------------------------------------------------------------------------
(* C5 *)

SharedRun ==
    /\ Done
    /\ table = SharedTable
    /\ max_depth = Unbounded
    /\ root_version = DepVersion
    /\ fails = {}

\* C5: on the table A->[B,C], B->[D], C->[D,E], D->[F], E->[A], F->[] the
\* unbounded traversal from A reports one cycle, whose record is the path
\* A -> C -> E -> A, and the graph holds the edges D->F and C->D.
C5_SharedTableCycle ==
    SharedRun =>
        /\ cycles_detected = << <<Key("A", "1.0"), Key("C", "1.0"),
                                  Key("E", "1.0"), Key("A", "1.0")>> >>
        /\ \E i \in 1..Len(graph[Key("D", "1.0")]) :
              graph[Key("D", "1.0")][i] = Key("F", "1.0")
        /\ \E i \in 1..Len(graph[Key("C", "1.0")]) :
              graph[Key("C", "1.0")][i] = Key("D", "1.0")

-----------------------------------------------------------------------------
(* C6 *)

DemoRun ==
    /\ Done
    /\ table = DemoTable
    /\ max_depth = Unbounded
    /\ root_version = DepVersion
    /\ fails = {}

\* C6: on the demo table the unbounded traversal from A reports exactly two
\* cycle records, one closing at A and one closing at B.
C6_DemoTwoCycles ==
    DemoRun =>
        /\ Len(cycles_detected) = 2
        /\ {cycles_detected[i] : i \in 1..2} =
              {CycleRecord(Key("A", "1.0")), CycleRecord(Key("B", "1.0"))}

C6_Witness == DemoRun /\ Len(cycles_detected) = 2 /\ Len(fetch_log) = 7

-----------------------------------------------------------------------------
(* C7 *)

\* C7: a call with a negative max_depth visits and fetches nothing and does
\* not return a normal result.
C7_NegativeDepthRejected ==
    ((~max_depth.inf) /\ max_depth.n < 0) =>
        /\ phase # "returned"
        /\ fetch_log = <<>>
        /\ depth_info = <<>>

-----------------------------------------------------------------------------
(* C8 *)

\* C8: the traversal terminates for every table, root version, failure set
\* and max_depth, the unbounded one included; recording a cycle ends that
\* call without a fetch, and no key is on the active path twice.
C8_Terminates ==
    /\ <>Done
    /\ [][cycles_detected' # cycles_detected =>
             fetch_log' = fetch_log /\ stack' = Pop(stack)]_vars
    /\ [](\A i, j \in Expanding :
             FrameKey(stack[i]) = FrameKey(stack[j]) => i = j)

\* an unbounded traversal of a cyclic table with a failing fetch has returned
C8_Witness ==
    /\ Done
    /\ max_depth = Unbounded
    /\ cycles_detected # <<>>
    /\ fails # {}
    /\ Len(fetch_log) >= 4

-----------------------------------------------------------------------------
(* C9 *)

\* C9: once depth_info[key] is set it never changes.
C9_DepthSetOnce ==
    [][\A key \in DOMAIN depth_info : depth_info'[key] = depth_info[key]]_vars

-----------------------------------------------------------------------------
(* C10 *)

\* C10: visited holds exactly the keys of the calls being expanded, mapped
\* to the depths 0..k with k <= max_depth and no key twice; a call that
\* returns leaves visited as it was when the call was made, also when its
\* fetch raised; visited is empty when build_dependency_graph_bfs returns.
C10_ActivePath ==
    /\ [](/\ DOMAIN visited = ActivePath
          /\ \A i \in Expanding :
                /\ visited[FrameKey(stack[i])] = i - 1
                /\ stack[i].current_depth = i - 1
                /\ ~DepthExceeds(i - 1, max_depth)
                /\ \A j \in 1..i : j \in Expanding
          /\ Cardinality(ActivePath) = Cardinality(Expanding)
          /\ (Done => visited = <<>>))
    /\ [][Len(stack') < Len(stack) => visited' = Top.entry_visited]_vars

\* a call whose fetch raised, made at depth >= 1, is about to pop its key
C10_Witness ==
    /\ phase = "running" /\ stack # <<>>
    /\ Top.pc = "except"
    /\ Len(stack) >= 2
    /\ TopKey \in DOMAIN visited

====
